---- MODULE Spec2Model ----
(***************************************************************************)
(* Model of the rc_slice crate (src/src/lib.rs): RcSlice<T> and            *)
(* ArcSlice<T>, read-only windows [start, end) into a reference-counted    *)
(* slice, with clone, advance, retract, split_off_before, split_off_after, *)
(* Borrow and Hash.                                                        *)
(*                                                                         *)
(* A view is a record [underlying, start, end].  The backing slice is      *)
(* immutable, so the Rc/Arc handle is modelled by the sequence it points   *)
(* to.  usize is modelled as 0..UsizeMax with checked arithmetic.          *)
(***************************************************************************)
EXTENDS Naturals, Sequences, FiniteSets

\* Bounds of the model.
MaxLen == 2
MaxViews == 2
UsizeMax == 3

VARIABLES kind, underlying, views, last

vars == <<kind, underlying, views, last>>

Usize == 0..UsizeMax

\* A backing slice of length n with pairwise distinct elements.
Backing(n) == [i \in 1..n |-> 10 * i]

Backings == {Backing(n) : n \in 0..MaxLen}

Kinds == {"Rc", "Arc"}

\* Option<usize>
NoneUsize == [some |-> FALSE, val |-> 0]
SomeUsize(n) == [some |-> TRUE, val |-> n]

\* usize::checked_add / usize::checked_sub, as the methods call them
checked_add(a, b) == IF a + b > UsizeMax THEN NoneUsize ELSE SomeUsize(a + b)

checked_sub(a, b) == IF b > a THEN NoneUsize ELSE SomeUsize(a - b)

\* &underlying[a..b]
Index(u, a, b) == SubSeq(u, a + 1, b)

NoView == [underlying |-> <<>>, start |-> 0, end |-> 0]

\* Option<&[T]> and Option<Self>, paired with the value of `it` on return
NoneSlice(it) == [it |-> it, some |-> FALSE, shed |-> <<>>]
SomeSlice(it, shed) == [it |-> it, some |-> TRUE, shed |-> shed]
NoneView(it) == [it |-> it, some |-> FALSE, out |-> NoView]
SomeView(it, out) == [it |-> it, some |-> TRUE, out |-> out]

(***************************************************************************)
(* RcSlice<T>                                                              *)
(***************************************************************************)
RcSlice_clone_reset(self) ==
    [underlying |-> self.underlying, start |-> 0, end |-> self.end]

RcSlice_clone(self) ==
    [underlying |-> self.underlying, start |-> self.start, end |-> self.end]

RcSlice_as_ref(self) == Index(self.underlying, self.start, self.end)

RcSlice_deref(self) == RcSlice_as_ref(self)

RcSlice_from(u) == [underlying |-> u, start |-> 0, end |-> Len(u)]

RcSlice_borrow(self) == RcSlice_as_ref(self)

RcSlice_bounds(it) == <<it.start, it.end>>

RcSlice_advance_early_write(it, incr) ==
    LET cut == checked_add(it.start, incr) IN
    IF ~cut.some THEN NoneSlice(it)
    ELSE IF cut.val <= it.end
         THEN SomeSlice([it EXCEPT !.start = cut.val],
                        Index(it.underlying, it.start, cut.val))
         ELSE NoneSlice([it EXCEPT !.start = cut.val])

RcSlice_advance_strict(it, incr) ==
    LET cut == checked_add(it.start, incr) IN
    IF ~cut.some THEN NoneSlice(it)
    ELSE IF cut.val < it.end
         THEN SomeSlice([it EXCEPT !.start = cut.val],
                        Index(it.underlying, it.start, cut.val))
         ELSE NoneSlice(it)

RcSlice_advance(it, incr) ==
    LET cut == checked_add(it.start, incr) IN
    IF ~cut.some THEN NoneSlice(it)
    ELSE IF cut.val <= it.end
         THEN SomeSlice([it EXCEPT !.start = cut.val],
                        Index(it.underlying, it.start, cut.val))
         ELSE NoneSlice(it)

RcSlice_retract_strict(it, decr) ==
    LET cut == checked_sub(it.end, decr) IN
    IF ~cut.some THEN NoneSlice(it)
    ELSE IF cut.val > it.start
         THEN SomeSlice([it EXCEPT !.end = cut.val],
                        Index(it.underlying, cut.val, it.end))
         ELSE NoneSlice(it)

RcSlice_retract(it, decr) ==
    LET cut == checked_sub(it.end, decr) IN
    IF ~cut.some THEN NoneSlice(it)
    ELSE IF cut.val >= it.start
         THEN SomeSlice([it EXCEPT !.end = cut.val],
                        Index(it.underlying, cut.val, it.end))
         ELSE NoneSlice(it)

RcSlice_split_off_before_swapped(it, index) ==
    LET cut == checked_add(it.start, index) IN
    IF ~cut.some THEN NoneView(it)
    ELSE IF cut.val <= it.end
         THEN LET back == [RcSlice_clone(it) EXCEPT !.start = cut.val] IN
              SomeView([it EXCEPT !.end = cut.val], back)
         ELSE NoneView(it)

RcSlice_split_off_before(it, index) ==
    LET cut == checked_add(it.start, index) IN
    IF ~cut.some THEN NoneView(it)
    ELSE IF cut.val <= it.end
         THEN LET front == [RcSlice_clone(it) EXCEPT !.end = cut.val] IN
              SomeView([it EXCEPT !.start = cut.val], front)
         ELSE NoneView(it)

RcSlice_split_off_after_unchecked(it, index) ==
    LET cut == checked_add(it.start, index) IN
    IF ~cut.some THEN NoneView(it)
    ELSE LET back == [RcSlice_clone(it) EXCEPT !.start = cut.val] IN
         SomeView([it EXCEPT !.end = cut.val], back)

RcSlice_split_off_after_swapped(it, index) ==
    LET cut == checked_add(it.start, index) IN
    IF ~cut.some THEN NoneView(it)
    ELSE IF cut.val <= it.end
         THEN LET front == [RcSlice_clone(it) EXCEPT !.end = cut.val] IN
              SomeView([it EXCEPT !.start = cut.val], front)
         ELSE NoneView(it)

RcSlice_split_off_after(it, index) ==
    LET cut == checked_add(it.start, index) IN
    IF ~cut.some THEN NoneView(it)
    ELSE IF cut.val <= it.end
         THEN LET back == [RcSlice_clone(it) EXCEPT !.start = cut.val] IN
              SomeView([it EXCEPT !.end = cut.val], back)
         ELSE NoneView(it)

(***************************************************************************)
(* ArcSlice<T>                                                             *)
(***************************************************************************)
ArcSlice_clone(self) ==
    [underlying |-> self.underlying, start |-> self.start, end |-> self.end]

ArcSlice_as_ref(self) == Index(self.underlying, self.start, self.end)

ArcSlice_deref(self) == ArcSlice_as_ref(self)

ArcSlice_from(u) == [underlying |-> u, start |-> 0, end |-> Len(u)]

ArcSlice_borrow(self) == ArcSlice_as_ref(self)

ArcSlice_bounds(it) == <<it.start, it.end>>

ArcSlice_advance(it, incr) ==
    LET cut == checked_add(it.start, incr) IN
    IF ~cut.some THEN NoneSlice(it)
    ELSE IF cut.val <= it.end
         THEN SomeSlice([it EXCEPT !.start = cut.val],
                        Index(it.underlying, it.start, cut.val))
         ELSE NoneSlice(it)

ArcSlice_retract(it, decr) ==
    LET cut == checked_sub(it.end, decr) IN
    IF ~cut.some THEN NoneSlice(it)
    ELSE IF cut.val >= it.start
         THEN SomeSlice([it EXCEPT !.end = cut.val],
                        Index(it.underlying, cut.val, it.end))
         ELSE NoneSlice(it)

ArcSlice_split_off_before(it, index) ==
    LET cut == checked_add(it.start, index) IN
    IF ~cut.some THEN NoneView(it)
    ELSE IF cut.val <= it.end
         THEN LET front == [ArcSlice_clone(it) EXCEPT !.end = cut.val] IN
              SomeView([it EXCEPT !.start = cut.val], front)
         ELSE NoneView(it)

ArcSlice_split_off_after(it, index) ==
    LET cut == checked_add(it.start, index) IN
    IF ~cut.some THEN NoneView(it)
    ELSE IF cut.val <= it.end
         THEN LET back == [ArcSlice_clone(it) EXCEPT !.start = cut.val] IN
              SomeView([it EXCEPT !.end = cut.val], back)
         ELSE NoneView(it)

(***************************************************************************)
(* Hashing.  A Hasher is modelled by the sequence of writes it received.   *)
(***************************************************************************)
\* Hash::hash_slice(data, state): every element hashed in order, no length.
hash_slice(data, state) == state \o [i \in 1..Len(data) |-> <<"elem", data[i]>>]

\* impl Hash for RcSlice<T> / ArcSlice<T>
RcSlice_hash(self, state) == hash_slice(RcSlice_deref(self), state)

ArcSlice_hash(self, state) == hash_slice(ArcSlice_deref(self), state)

\* impl Hash for [T] of core: the length prefix, then the elements.
slice_hash(data, state) == hash_slice(data, Append(state, <<"len", Len(data)>>))

(***************************************************************************)
(* Dispatch on the variant in use.                                         *)
(***************************************************************************)
from(k, u) == IF k = "Rc" THEN RcSlice_from(u) ELSE ArcSlice_from(u)
clone(k, v) == IF k = "Rc" THEN RcSlice_clone(v) ELSE ArcSlice_clone(v)
deref(k, v) == IF k = "Rc" THEN RcSlice_deref(v) ELSE ArcSlice_deref(v)
borrow(k, v) == IF k = "Rc" THEN RcSlice_borrow(v) ELSE ArcSlice_borrow(v)
bounds(k, v) == IF k = "Rc" THEN RcSlice_bounds(v) ELSE ArcSlice_bounds(v)
hash(k, v, state) == IF k = "Rc" THEN RcSlice_hash(v, state) ELSE ArcSlice_hash(v, state)
advance(k, v, n) == IF k = "Rc" THEN RcSlice_advance(v, n) ELSE ArcSlice_advance(v, n)
retract(k, v, n) == IF k = "Rc" THEN RcSlice_retract(v, n) ELSE ArcSlice_retract(v, n)
split_off_before(k, v, n) ==
    IF k = "Rc" THEN RcSlice_split_off_before(v, n) ELSE ArcSlice_split_off_before(v, n)
split_off_after(k, v, n) ==
    IF k = "Rc" THEN RcSlice_split_off_after(v, n) ELSE ArcSlice_split_off_after(v, n)

(***************************************************************************)
(* The state machine: the views alive over one backing slice, and a record *)
(* of the call just made: its target `it`, its argument, the views before  *)
(* the call, and what the call returned (`new` is the place of a returned  *)
(* view, 0 when there is none).  The record is cleared when the caller     *)
(* lets go of the returned value.                                          *)
(***************************************************************************)
MutOps == {"advance", "retract", "split_off_before", "split_off_after"}

\* The caller's side of a call on vs[i]: `it` is written back through the
\* &mut reference, and a returned view is kept as a further view.
CallSlice(vs, i, r) ==
    [views |-> [vs EXCEPT ![i] = r.it], some |-> r.some, shed |-> r.shed, new |-> 0]

CallSplit(vs, i, r) ==
    IF r.some
    THEN [views |-> Append([vs EXCEPT ![i] = r.it], r.out), some |-> TRUE,
          shed |-> <<>>, new |-> Len(vs) + 1]
    ELSE [views |-> [vs EXCEPT ![i] = r.it], some |-> FALSE, shed |-> <<>>, new |-> 0]

Do(k, vs, op, i, n) ==
    CASE op = "advance" -> CallSlice(vs, i, advance(k, vs[i], n))
      [] op = "retract" -> CallSlice(vs, i, retract(k, vs[i], n))
      [] op = "split_off_before" -> CallSplit(vs, i, split_off_before(k, vs[i], n))
      [] op = "split_off_after" -> CallSplit(vs, i, split_off_after(k, vs[i], n))

\* No call is under way: the caller holds no returned value.
Idle ==
    [op |-> "none", it |-> 0, arg |-> 0, before |-> <<>>,
     some |-> FALSE, shed |-> <<>>, new |-> 0]

Record(op, i, arg, r) ==
    [op |-> op, it |-> i, arg |-> arg, before |-> views,
     some |-> r.some, shed |-> r.shed, new |-> r.new]

Init ==
    /\ kind \in Kinds
    /\ underlying \in Backings
    /\ views = <<from(kind, underlying)>>
    /\ last = [op |-> "from", it |-> 0, arg |-> 0, before |-> <<>>,
               some |-> TRUE, shed |-> <<>>, new |-> 1]

From ==
    /\ last = Idle
    /\ Len(views) < MaxViews
    /\ views' = Append(views, from(kind, underlying))
    /\ last' = [op |-> "from", it |-> 0, arg |-> 0, before |-> views,
                some |-> TRUE, shed |-> <<>>, new |-> Len(views) + 1]
    /\ UNCHANGED <<kind, underlying>>

Clone(i) ==
    /\ last = Idle
    /\ Len(views) < MaxViews
    /\ views' = Append(views, clone(kind, views[i]))
    /\ last' = [op |-> "clone", it |-> i, arg |-> 0, before |-> views,
                some |-> TRUE, shed |-> <<>>, new |-> Len(views) + 1]
    /\ UNCHANGED <<kind, underlying>>

Advance(i, incr) ==
    LET r == Do(kind, views, "advance", i, incr) IN
    /\ last = Idle
    /\ views' = r.views
    /\ last' = Record("advance", i, incr, r)
    /\ UNCHANGED <<kind, underlying>>

Retract(i, decr) ==
    LET r == Do(kind, views, "retract", i, decr) IN
    /\ last = Idle
    /\ views' = r.views
    /\ last' = Record("retract", i, decr, r)
    /\ UNCHANGED <<kind, underlying>>

SplitOffBefore(i, index) ==
    LET r == Do(kind, views, "split_off_before", i, index) IN
    /\ last = Idle
    /\ Len(r.views) <= MaxViews
    /\ views' = r.views
    /\ last' = Record("split_off_before", i, index, r)
    /\ UNCHANGED <<kind, underlying>>

SplitOffAfter(i, index) ==
    LET r == Do(kind, views, "split_off_after", i, index) IN
    /\ last = Idle
    /\ Len(r.views) <= MaxViews
    /\ views' = r.views
    /\ last' = Record("split_off_after", i, index, r)
    /\ UNCHANGED <<kind, underlying>>

\* The caller is done with what the last call returned; the borrow of `it`
\* held by a returned &[T] ends and the next call can be made.
Release ==
    /\ last # Idle
    /\ last' = Idle
    /\ UNCHANGED <<kind, underlying, views>>

Next ==
    \/ From
    \/ \E i \in 1..Len(views) : Clone(i)
    \/ \E i \in 1..Len(views), incr \in Usize : Advance(i, incr)
    \/ \E i \in 1..Len(views), decr \in Usize : Retract(i, decr)
    \/ \E i \in 1..Len(views), index \in Usize : SplitOffBefore(i, index)
    \/ \E i \in 1..Len(views), index \in Usize : SplitOffAfter(i, index)
    \/ Release

Spec == Init /\ [][Next]_vars

(***************************************************************************)
(* Abbreviations for the properties: the target of the last call before    *)
(* and after it, and the view the call returned.                           *)
(***************************************************************************)
Old == last.before[last.it]
Now == views[last.it]
Out == views[last.new]
OldContent == deref(kind, Old)

(***************************************************************************)
(* C1.  Bounds invariant: every view alive, a split's returned view        *)
(* included, is over the backing slice and has                             *)
(* 0 <= start <= end <= length of the backing slice, whatever calls were   *)
(* made, successful or failed.                                             *)
(***************************************************************************)
BoundsInvariant ==
    \A i \in 1..Len(views) :
        /\ views[i].underlying = underlying
        /\ 0 <= views[i].start
        /\ views[i].start <= views[i].end
        /\ views[i].end <= Len(views[i].underlying)

\* A split has succeeded on a view that was advanced or retracted before.
BoundsWitness ==
    /\ last.op \in {"split_off_before", "split_off_after"}
    /\ last.some
    /\ Len(views) = 2
    /\ views[1].end - views[1].start + views[2].end - views[2].start < Len(underlying)

(***************************************************************************)
(* C2.  Failure leaves state untouched: a call of advance, retract,        *)
(* split_off_before or split_off_after whose argument is out of range, or  *)
(* whose index arithmetic overflows or underflows, returns None, leaves    *)
(* every view as it was and creates no view.                               *)
(***************************************************************************)
OutOfRange ==
    CASE last.op = "advance" -> Old.start + last.arg > Old.end
      [] last.op = "retract" -> last.arg > Old.end - Old.start
      [] last.op = "split_off_before" -> Old.start + last.arg > Old.end
      [] last.op = "split_off_after" -> Old.start + last.arg > Old.end

Overflows ==
    CASE last.op = "retract" -> last.arg > Old.end
      [] OTHER -> Old.start + last.arg > UsizeMax

FailureLeavesStateUntouched ==
    (last.op \in MutOps /\ (OutOfRange \/ Overflows)) =>
        /\ ~last.some
        /\ last.new = 0
        /\ views = last.before
        /\ bounds(kind, Now) = bounds(kind, Old)

\* A call on a non-empty window has failed because start + argument
\* overflows the index type.
FailureWitness ==
    /\ last.op \in MutOps \ {"retract"}
    /\ Old.start < Old.end
    /\ Overflows
    /\ ~last.some

SplitOffBeforeDocComment ==
    (last.op = "split_off_before" /\ last.some) =>
        /\ deref(kind, Now) = SubSeq(OldContent, 1, last.arg)
        /\ deref(kind, Out) = SubSeq(OldContent, last.arg + 1, Len(OldContent))

SplitOffAfterDocComment ==
    (last.op = "split_off_after" /\ last.some) =>
        /\ deref(kind, Out) = SubSeq(OldContent, 1, last.arg)
        /\ deref(kind, Now) = SubSeq(OldContent, last.arg + 1, Len(OldContent))

(***************************************************************************)
(* C7.  advance(incr) succeeds exactly when start + incr does not overflow *)
(* and start + incr <= end; on success the bounds are (start+incr, end)    *)
(* and the returned slice is underlying[start .. start+incr), the prefix   *)
(* of length incr of the content before the call.                          *)
(***************************************************************************)
AdvanceResult ==
    last.op = "advance" =>
        /\ last.some <=> (Old.start + last.arg <= UsizeMax /\ Old.start + last.arg <= Old.end)
        /\ last.some =>
            /\ bounds(kind, Now) = <<Old.start + last.arg, Old.end>>
            /\ Now.underlying = Old.underlying
            /\ last.shed = SubSeq(underlying, Old.start + 1, Old.start + last.arg)
            /\ last.shed = SubSeq(OldContent, 1, last.arg)
            /\ last.shed \o deref(kind, Now) = OldContent

\* advance has shed a whole, non-empty window that did not start at 0.
AdvanceWitness ==
    /\ last.op = "advance"
    /\ last.some
    /\ Old.start > 0
    /\ last.arg > 0
    /\ last.arg = Old.end - Old.start

(***************************************************************************)
(* C8.  retract(decr) succeeds exactly when end - decr does not underflow  *)
(* and end - decr >= start; on success the bounds are (start, end-decr)    *)
(* and the returned slice is underlying[end-decr .. end), the suffix of    *)
(* length decr of the content before the call.                             *)
(***************************************************************************)
RetractResult ==
    last.op = "retract" =>
        /\ last.some <=> (last.arg <= Old.end /\ Old.end - last.arg >= Old.start)
        /\ last.some =>
            /\ bounds(kind, Now) = <<Old.start, Old.end - last.arg>>
            /\ Now.underlying = Old.underlying
            /\ last.shed = SubSeq(underlying, Old.end - last.arg + 1, Old.end)
            /\ last.shed = SubSeq(OldContent, Len(OldContent) - last.arg + 1, Len(OldContent))
            /\ deref(kind, Now) \o last.shed = OldContent

\* retract has shed a whole, non-empty window that did not end at the end.
RetractWitness ==
    /\ last.op = "retract"
    /\ last.some
    /\ Old.end < Len(underlying)
    /\ last.arg > 0
    /\ last.arg = Old.end - Old.start

(***************************************************************************)
(* C9.  View independence: clone yields a view with the bounds and the     *)
(* content of its source; a call on one view leaves every other view as    *)
(* it was; and calls on two distinct views commute: made in either order   *)
(* they leave the same bounds in every view and return the same views.     *)
(***************************************************************************)
AppendedViews(vs, n) == {vs[m] : m \in (n + 1)..Len(vs)}

\* Both orders leave the same views in place and return the same views.
SameOutcome(n, ab, ba) ==
    /\ SubSeq(ab, 1, n) = SubSeq(ba, 1, n)
    /\ AppendedViews(ab, n) = AppendedViews(ba, n)

Commutes(vs, a, i, x, b, j, y) ==
    SameOutcome(Len(vs),
                Do(kind, Do(kind, vs, a, i, x).views, b, j, y).views,
                Do(kind, Do(kind, vs, b, j, y).views, a, i, x).views)

ViewIndependence ==
    /\ last.op = "clone" =>
        /\ bounds(kind, Out) = bounds(kind, Old)
        /\ deref(kind, Out) = deref(kind, Old)
        /\ Out.underlying = Old.underlying
        /\ Now = Old
    /\ \A j \in 1..Len(last.before) : j # last.it => views[j] = last.before[j]
    /\ last = Idle =>
        \A i \in 1..Len(views), j \in 1..Len(views), a \in MutOps, b \in MutOps,
           x \in Usize, y \in Usize :
            i < j => Commutes(views, a, i, x, b, j, y)

\* A clone of a narrowed view exists and one of the two has moved since.
IndependenceWitness ==
    /\ Len(views) = 2
    /\ last.op \in {"advance", "retract"}
    /\ last.some
    /\ last.arg > 0
    /\ last.before[1] = last.before[2]
    /\ last.before[1].start > 0
    /\ views[1] # views[2]

(***************************************************************************)
(* C10.  A view hashes as the slice it borrows as: what its Hash feeds to  *)
(* a hasher is what the Hash of the borrowed [T] feeds to it.              *)
(***************************************************************************)
HashesAsBorrowedSlice ==
    \A i \in 1..Len(views) :
        hash(kind, views[i], <<>>) = slice_hash(borrow(kind, views[i]), <<>>)

====
